---- MODULE Spec2Model ----
(***************************************************************************)
(* A model of the two revisions of the go2web command-line HTTP fetcher:   *)
(* src/go2web.py (JSON file cache with a time-to-live, recursive redirect  *)
(* following, regex HTML cleaning) and src/lab5.py (plain file cache,      *)
(* one-hop redirect following).                                            *)
(*                                                                         *)
(* Text is a sequence of one-character strings.  URLs, cache keys and JSON *)
(* member names are atomic strings that hold no character needing an       *)
(* escape.                                                                 *)
(***************************************************************************)
EXTENDS Integers, Sequences, FiniteSets, TLC

VARIABLES
    now,        \* time.time(), in whole seconds
    cache,      \* go2web: CACHE_DIR, url -> content of <sha256(url)>.json
    l5cache,    \* lab5: CACHE_DIR, key -> content of the file named key
    rev,        \* the script that runs: "go2web" or "lab5"
    written,    \* key -> the store call its file comes from (a history variable)
    last,       \* the last cache operation and what it returned
    wpc,        \* a second process storing into the cache: where it is
    wval,       \*   the value it stores
    wrest,      \*   the text it has still to write
    rpc,        \* a process looking the same key up: where it is
    rdata,      \*   the text it has read
    rret,       \*   what its lookup returned
    hpc,        \* clean_html on its own: "input", "cleaned" or "recleaned"
    html,       \*   the text given to clean_html
    cleaned,    \*   what clean_html made of html
    again,      \*   what clean_html made of cleaned
    pc,         \* one run of the command line tool: where it is
    server,     \*   the response each host gives (the pages of the web)
    caller,     \*   what the user asked for: "url" or "search"
    ckey,       \*   lab5: the url the cache key is made of; go2web: the search path
    depth,      \*   the calls of make_http_request entered, one inside the other
    host,       \*   host of the innermost call
    path,       \*   path of the innermost call
    follow,     \*   lab5: follow_redirects of the innermost call
    opened,     \*   the calls whose socket is open
    resp,       \*   the response the innermost call received
    exc,        \*   the exception being raised
    result,     \*   what make_http_request returned
    out,        \*   what the user gets to see
    before,     \*   the two caches at the start of the run (history)
    neterr,     \*   a connect, send or receive failed in this run (history)
    cacheerr,   \*   a cache file operation failed in this run (history)
    fetched,    \*   the text extracted from the final response (history)
    log,        \*   the first two requests of the run: host and path (history)
    prev        \*   the run before this one: its request, output, time, hops

cacheVars == <<written, last>>
raceVars == <<wpc, wval, wrest, rpc, rdata, rret>>
htmlVars == <<hpc, html, cleaned, again>>
storeVars == <<now, cache, l5cache, rev, written, last>>
fetchVars ==
    <<pc, server, caller, ckey, depth, host, path, follow, opened, resp, exc, result,
      out, before, neterr, cacheerr, fetched, log, prev>>

vars == <<storeVars, raceVars, htmlVars, fetchVars>>

\* ------------------------------------------------------------------ bounds

MaxTime == 602          \* the clock stops advancing here
MaxPieces == 3          \* the pieces an input of clean_html is made of, at most
MaxLines == 4           \* the lines of an input of clean_html given line by line
TickSteps == {299, 301}

\* ------------------------------------------------------- program constants

CACHE_EXPIRATION == 600

\* ------------------------------------------------------------ python values

None == <<"None">>
Str(s) == <<"str", s>>
Raise(e) == <<"raise", e>>
IsRaise(v) == v[1] = "raise"

NoFile == <<"ENOENT">>

CR == "\r"
LF == "\n"
QUOTE == "\""
BSLASH == "\\"

\* ----------------------------------------------------------------- inputs

\* A url as make_http_request forms it, f"{host}{path}": the host and the path.
Urls == {<<"a.example", "/">>, <<"b.example", "/", "x">>}

Payloads ==
    { <<>>, <<"a", CR, "b">>, <<QUOTE, BSLASH, "n">> }

\* The outcome of the operating system calls of one cache operation.
StoreIO == {"ok", "open_fails", "write_fails"}
LoadIO == {"ok", "open_fails"}

\* --------------------------------------------------------- json (go2web)

\* The text of a JSON file is a sequence of characters in which a number, a
\* member name and each of the separators "{", "}", ": " and ", " that
\* json.dump writes stands as one element.

RECURSIVE JsonEscape(_)
\* json.encoder.encode_basestring: the body of a string literal.
JsonEscape(s) ==
    IF s = <<>> THEN <<>>
    ELSE LET c == Head(s)
             e == CASE c = QUOTE -> <<BSLASH, QUOTE>>
                    [] c = BSLASH -> <<BSLASH, BSLASH>>
                    [] c = LF -> <<BSLASH, "n">>
                    [] c = CR -> <<BSLASH, "r">>
                    [] OTHER -> <<c>>
         IN e \o JsonEscape(Tail(s))

BadJson == <<"JSONDecodeError">>

RECURSIVE JsonUnescape(_)
\* json.decoder.py_scanstring on the body of a string literal: BadJson when
\* the body holds a control character or a bad escape.
JsonUnescape(e) ==
    IF e = <<>> THEN <<>>
    ELSE LET c == Head(e) IN
         IF c \in {CR, LF} THEN BadJson
         ELSE IF c = BSLASH
         THEN IF Len(e) < 2 THEN BadJson
              ELSE LET d == e[2]
                       rest == JsonUnescape(Tail(Tail(e)))
                       ch == CASE d = QUOTE -> QUOTE
                               [] d = BSLASH -> BSLASH
                               [] d = "n" -> LF
                               [] d = "r" -> CR
                               [] OTHER -> "?"
                   IN IF d \notin {QUOTE, BSLASH, "n", "r"} \/ rest = BadJson
                      THEN BadJson
                      ELSE <<ch>> \o rest
         ELSE LET rest == JsonUnescape(Tail(e))
              IN IF rest = BadJson THEN BadJson ELSE <<c>> \o rest

JQuoted(body) == <<QUOTE>> \o body \o <<QUOTE>>

\* json.dump(cache_data, f, ensure_ascii=False): the text written.
JsonDump(timestamp, url, content) ==
    <<"{">> \o JQuoted(<<"timestamp">>) \o <<": ", ToString(timestamp), ", ">>
        \o JQuoted(<<"url">>) \o <<": ">> \o JQuoted(JsonEscape(url)) \o <<", ">>
        \o JQuoted(<<"content">>) \o <<": ">> \o JQuoted(JsonEscape(content))
        \o <<"}">>

IsJNumber(c) == \E n \in 0..MaxTime : ToString(n) = c
JNumberValue(c) == CHOOSE n \in 0..MaxTime : ToString(n) = c

RECURSIVE StringEnd(_, _)
\* The index of the quote that closes the string literal whose body starts
\* at index i of s; 0 when the text ends first.
StringEnd(s, i) ==
    IF i > Len(s) THEN 0
    ELSE IF s[i] = QUOTE THEN i
    ELSE IF s[i] = BSLASH THEN StringEnd(s, i + 2)
    ELSE StringEnd(s, i + 1)

\* The string or number that starts at index i of s and the index after it.
ScanValue(s, i) ==
    IF i > Len(s) THEN BadJson
    ELSE IF s[i] = QUOTE
    THEN LET e == StringEnd(s, i + 1) IN
         IF e = 0 THEN BadJson
         ELSE LET body == JsonUnescape(SubSeq(s, i + 1, e - 1)) IN
              IF body = BadJson THEN BadJson ELSE <<Str(body), e + 1>>
    ELSE IF IsJNumber(s[i]) THEN <<<<"int", JNumberValue(s[i])>>, i + 1>>
    ELSE BadJson

RECURSIVE ScanMembers(_, _, _)
\* The members of an object from index i of s up to the brace that closes it
\* and ends the text, after the pairs of acc.
ScanMembers(s, i, acc) ==
    LET name == ScanValue(s, i) IN
    IF name = BadJson \/ name[1][1] # "str" THEN BadJson
    ELSE IF name[2] > Len(s) \/ s[name[2]] # ": " THEN BadJson
    ELSE LET value == ScanValue(s, name[2] + 1) IN
         IF value = BadJson \/ value[2] > Len(s) THEN BadJson
         ELSE LET pairs == Append(acc, <<name[1][2], value[1]>>)
                  sep == s[value[2]]
              IN IF sep = ", " THEN ScanMembers(s, value[2] + 1, pairs)
                 ELSE IF sep = "}" /\ value[2] = Len(s) THEN <<"dict", pairs>>
                 ELSE BadJson

\* json.load(f): the value the text holds, or BadJson (JSONDecodeError: the
\* text is empty, cut short or followed by more text).
JsonLoad(s) ==
    IF s = <<>> THEN BadJson
    ELSE IF s[1] = "{"
    THEN IF Len(s) >= 2 /\ s[2] = "}"
         THEN IF Len(s) = 2 THEN <<"dict", <<>>>> ELSE BadJson
         ELSE ScanMembers(s, 2, <<>>)
    ELSE LET v == ScanValue(s, 1) IN
         IF v = BadJson \/ v[2] # Len(s) + 1 THEN BadJson ELSE v[1]

NoKey == <<"KeyError">>

\* d[name] of a python dict: the last pair of that name.
DictGet(pairs, name) ==
    LET at == {i \in 1..Len(pairs) : pairs[i][1] = <<name>>}
    IN IF at = {} THEN NoKey
       ELSE pairs[CHOOSE j \in at : \A k \in at : k <= j][2]

\* ---------------------------------------------------- cache store (go2web)

\* generate_cache_key: the SHA-256 of the url names the file; the model keeps
\* the directory as a function of the url, one file per url.
generate_cache_key(url) == url

\* get_from_cache(url), from the json.load on: what the call returns for the
\* text read from the file, or the exception that leaves it.  The handler catches
\* JSONDecodeError and IOError only.
CacheDataResult(text, t) ==
    LET cache_data == JsonLoad(text) IN
    IF cache_data = BadJson THEN None
    ELSE IF cache_data[1] # "dict" THEN Raise("TypeError")
    ELSE LET ts == DictGet(cache_data[2], "timestamp") IN
         IF ts = NoKey THEN Raise("KeyError")
         ELSE IF ts[1] # "int" THEN Raise("TypeError")
         ELSE IF t - ts[2] < CACHE_EXPIRATION
         THEN LET c == DictGet(cache_data[2], "content") IN
              IF c = NoKey THEN Raise("KeyError") ELSE c
         ELSE None

\* get_from_cache(url)
get_from_cache(dir, url, t, io) ==
    LET f == dir[generate_cache_key(url)] IN
    IF f = NoFile THEN None
    ELSE IF io = "open_fails" THEN None
    ELSE CacheDataResult(f, t)

\* store_in_cache(url, response): the cache directory after the call.  open(.., 'w')
\* truncates the file; a write that fails after it leaves the file empty.
store_in_cache(dir, url, response, t, io) ==
    CASE io = "ok" ->
            [dir EXCEPT ![generate_cache_key(url)] = JsonDump(t, url, response)]
      [] io = "write_fails" ->
            [dir EXCEPT ![generate_cache_key(url)] = <<>>]
      [] OTHER -> dir

\* ------------------------------------------------------ cache store (lab5)

\* Reading a file opened in text mode (newline=None): "\r\n" and "\r"
\* both come back as "\n".
UniversalNewlines(s) ==
    LET read == [i \in DOMAIN s |->
                    IF s[i] = LF /\ i > 1 /\ s[i - 1] = CR THEN <<>>
                    ELSE IF s[i] = CR THEN <<LF>>
                    ELSE <<s[i]>>]
        kept == SelectSeq(read, LAMBDA c : c # <<>>)
    IN [i \in DOMAIN kept |-> kept[i][1]]

\* A file of the lab5 cache: what was written and when (its modification time).
L5File(data, t) == <<"file", data, t>>

\* cache_response(cache_key, data): the directory after the call, or the
\* IOError that leaves it (nothing catches it).
cache_response(dir, key, data, t, io) ==
    CASE io = "ok" -> [dir EXCEPT ![key] = L5File(data, t)]
      [] io = "write_fails" -> [dir EXCEPT ![key] = L5File(<<>>, t)]
      [] OTHER -> dir

\* get_cached_response(cache_key)
get_cached_response(dir, key, io) ==
    IF dir[key] = NoFile THEN None
    ELSE IF io = "open_fails" THEN Raise("IOError")
    ELSE Str(UniversalNewlines(dir[key][2]))

\* ------------------------------------------------- clean_html (go2web)

TAB == "\t"
Whitespace == {" ", TAB, LF, CR}        \* \s, and what str.strip() removes
Digits == {"0", "1", "2", "3", "4", "5", "6", "7", "8", "9"}
HexDigits == Digits \cup {"A", "B", "C", "D", "E", "F", "a", "b", "c", "d", "e", "f"}
NoiseChars == Whitespace \cup {"*", "=", "-", "_", "+", ".", ",", ";", ":"}

Chars(s) == {s[i] : i \in DOMAIN s}

IsPrefix(lit, s) == Len(s) >= Len(lit) /\ SubSeq(s, 1, Len(lit)) = lit
Drop(s, n) == SubSeq(s, n + 1, Len(s))

\* The first index from i on at which s holds the character c; 0 if none.
Find(c, s, i) ==
    IF \E j \in i..Len(s) : s[j] = c
    THEN CHOOSE j \in i..Len(s) : s[j] = c /\ \A k \in i..(j - 1) : s[k] # c
    ELSE 0

\* lit starts at index j of s.
LitAt(lit, s, j) ==
    j + Len(lit) - 1 <= Len(s) /\ \A k \in 1..Len(lit) : s[j + k - 1] = lit[k]

\* The first index from i on at which lit starts in s; 0 if none.
FindLit(lit, s, i) ==
    IF \E j \in i..Len(s) : LitAt(lit, s, j)
    THEN CHOOSE j \in i..Len(s) :
            LitAt(lit, s, j) /\ \A k \in i..(j - 1) : ~LitAt(lit, s, k)
    ELSE 0

\* The length of the longest run of characters of class that starts at index i.
RunLen(class, s, i) ==
    IF \E j \in i..Len(s) : s[j] \notin class
    THEN (CHOOSE j \in i..Len(s) :
             s[j] \notin class /\ \A k \in i..(j - 1) : s[k] \in class) - i
    ELSE IF i > Len(s) THEN 0 ELSE Len(s) - i + 1

\* <name[^>]*>.*?</name>: the length of a match at the start of s, 0 if none.
RegionLen(open, close, s) ==
    IF ~IsPrefix(open, s) THEN 0
    ELSE LET g == Find(">", s, Len(open) + 1) IN
         IF g = 0 THEN 0
         ELSE LET e == FindLit(close, s, g + 1) IN
              IF e = 0 THEN 0 ELSE e + Len(close) - 1

\* prefix[^>]*>
OpenTagLen(prefix, s) ==
    IF ~IsPrefix(prefix, s) THEN 0 ELSE Find(">", s, Len(prefix) + 1)

\* prefix[class]+;
EntityLen(prefix, class, s) ==
    IF ~IsPrefix(prefix, s) THEN 0
    ELSE LET n == RunLen(class, s, Len(prefix) + 1)
             e == Len(prefix) + n + 1
         IN IF n >= 1 /\ e <= Len(s) /\ s[e] = ";" THEN e ELSE 0

LitLen(lit, s) == IF IsPrefix(lit, s) THEN Len(lit) ELSE 0

BlockPrefixes ==
    { <<"<", "d", "i", "v">>, <<"<", "p">>, <<"<", "t", "r">>, <<"<", "t", "d">>,
      <<"<", "l", "i">>, <<"<", "u", "l">>, <<"<", "o", "l">> }
      \cup { <<"<", "h", d>> : d \in {"1", "2", "3", "4", "5", "6"} }

\* The length of a match of a pattern of clean_html at the start of s, 0 if
\* there is none.  No pattern of clean_html matches the empty text.
MatchLen(pat, s) ==
    CASE pat = "script" ->
            RegionLen(<<"<", "s", "c", "r", "i", "p", "t">>,
                      <<"<", "/", "s", "c", "r", "i", "p", "t", ">">>, s)
      [] pat = "style" ->
            RegionLen(<<"<", "s", "t", "y", "l", "e">>,
                      <<"<", "/", "s", "t", "y", "l", "e", ">">>, s)
      [] pat = "nbsp" -> LitLen(<<"&", "n", "b", "s", "p", ";">>, s)
      [] pat = "amp" -> LitLen(<<"&", "a", "m", "p", ";">>, s)
      [] pat = "lt" -> LitLen(<<"&", "l", "t", ";">>, s)
      [] pat = "gt" -> LitLen(<<"&", "g", "t", ";">>, s)
      [] pat = "quot" -> LitLen(<<"&", "q", "u", "o", "t", ";">>, s)
      [] pat = "hex" -> EntityLen(<<"&", "#", "x">>, HexDigits, s)
      [] pat = "dec" -> EntityLen(<<"&", "#">>, Digits, s)
      [] pat = "br" -> OpenTagLen(<<"<", "b", "r">>, s)
      [] pat = "/p" -> LitLen(<<"<", "/", "p", ">">>, s)
      [] pat = "/div" -> LitLen(<<"<", "/", "d", "i", "v", ">">>, s)
      [] pat = "/h" ->
            IF /\ IsPrefix(<<"<", "/", "h">>, s)
               /\ Len(s) >= 5
               /\ s[4] \in {"1", "2", "3", "4", "5", "6"}
               /\ s[5] = ">"
            THEN 5 ELSE 0
      [] pat = "/tr" -> LitLen(<<"<", "/", "t", "r", ">">>, s)
      [] pat = "/li" -> LitLen(<<"<", "/", "l", "i", ">">>, s)
      [] pat = "block" ->
            IF \E b \in BlockPrefixes : OpenTagLen(b, s) > 0
            THEN LET b == CHOOSE b \in BlockPrefixes : OpenTagLen(b, s) > 0
                 IN OpenTagLen(b, s)
            ELSE 0
      [] pat = "tag" -> OpenTagLen(<<"<">>, s)
      [] pat = "spaces" -> RunLen({" "}, s, 1)
      [] pat = "tabs" -> RunLen({TAB}, s, 1)
      [] pat = "newlines" ->
            IF RunLen({LF}, s, 1) >= 3 THEN RunLen({LF}, s, 1) ELSE 0
      [] pat = "junk" ->
            LET d == RunLen(Digits, s, 1)
                e == d + RunLen(Whitespace, s, d + 1) + 1
            IN IF d >= 1 /\ e <= Len(s) /\ s[e] = ">" THEN e ELSE 0
      [] pat = "minProd" ->
            LET a == <<"m", "i", "n", "P", "r", "o", "d", ")">>
                b == <<"&", "&">>
                c == <<"(", "$", "i", "n", "d", "e", "x">>
                i == Len(a) + RunLen(Whitespace, s, Len(a) + 1)
                j == i + Len(b) + RunLen(Whitespace, s, i + Len(b) + 1)
            IN IF /\ IsPrefix(a, s)
                  /\ IsPrefix(b, Drop(s, i))
                  /\ IsPrefix(c, Drop(s, j))
               THEN j + Len(c) ELSE 0

\* The first index from i on at which a match of pat starts in s; 0 if none.
NextMatch(pat, s, i) ==
    IF \E j \in i..Len(s) : MatchLen(pat, Drop(s, j - 1)) > 0
    THEN CHOOSE j \in i..Len(s) :
            /\ MatchLen(pat, Drop(s, j - 1)) > 0
            /\ \A k \in i..(j - 1) : MatchLen(pat, Drop(s, k - 1)) = 0
    ELSE 0

RECURSIVE ReSub(_, _, _)
\* re.sub(pattern, repl, s): every match, leftmost first, gives way to repl.
ReSub(pat, repl, s) ==
    LET j == NextMatch(pat, s, 1) IN
    IF j = 0 THEN s
    ELSE SubSeq(s, 1, j - 1) \o repl
             \o ReSub(pat, repl, Drop(s, j - 1 + MatchLen(pat, Drop(s, j - 1))))

RECURSIVE Split(_, _)
\* s.split(sep), sep one character: the pieces, at least one.
Split(s, sep) ==
    LET i == Find(sep, s, 1) IN
    IF i = 0 THEN <<s>>
    ELSE <<SubSeq(s, 1, i - 1)>> \o Split(Drop(s, i), sep)

RECURSIVE LStrip(_)
LStrip(s) == IF s # <<>> /\ Head(s) \in Whitespace THEN LStrip(Tail(s)) ELSE s

RECURSIVE RStrip(_)
RStrip(s) ==
    IF s # <<>> /\ s[Len(s)] \in Whitespace
    THEN RStrip(SubSeq(s, 1, Len(s) - 1)) ELSE s

\* s.strip()
Strip(s) == RStrip(LStrip(s))

RECURSIVE Join(_, _)
\* sep.join(pieces)
Join(sep, pieces) ==
    IF pieces = <<>> THEN <<>>
    ELSE IF Len(pieces) = 1 THEN pieces[1]
    ELSE pieces[1] \o sep \o Join(sep, Tail(pieces))

\* The loop of clean_html over the lines: each is stripped, and kept unless
\* empty or made of whitespace and the characters * = - _ + . , ; : only.
KeptLines(text) ==
    LET stripped == [i \in DOMAIN Split(text, LF) |-> Strip(Split(text, LF)[i])]
    IN SelectSeq(stripped,
                 LAMBDA line : line # <<>> /\ \E i \in DOMAIN line : line[i] \notin NoiseChars)

RECURSIVE SubAll(_, _)
\* text = re.sub(..) once for each pattern and replacement of subs, in order.
SubAll(subs, s) ==
    IF subs = <<>> THEN s
    ELSE SubAll(Tail(subs), ReSub(Head(subs)[1], Head(subs)[2], s))

\* clean_html(text), the substitutions in the order of the code.
clean_html(text) ==
    LET t6 == SubAll(<< <<"script", <<" ">>>>, <<"style", <<" ">>>>,
                        <<"nbsp", <<" ">>>>, <<"amp", <<"&">>>>, <<"lt", <<"<">>>>,
                        <<"gt", <<">">>>>, <<"quot", <<QUOTE>>>>,
                        <<"hex", <<>>>>, <<"dec", <<>>>>,
                        <<"br", <<LF>>>>, <<"/p", <<LF, LF>>>>, <<"/div", <<LF>>>>,
                        <<"/h", <<LF, LF>>>>, <<"/tr", <<LF>>>>, <<"/li", <<LF>>>>,
                        <<"block", <<LF>>>>, <<"tag", <<>>>>,
                        <<"spaces", <<" ">>>>, <<"tabs", <<" ">>>> >>, text)
        t7 == ReSub("newlines", <<LF, LF>>, Join(<<LF>>, KeptLines(t6)))
        t8 == SubAll(<< <<"junk", <<>>>>, <<"minProd", <<>>>> >>, t7)
    IN Strip(t8)

\* ------------------------------------------------------- urls and http

\* In the text of a url and of an HTTP response the separators "://", "/",
\* "?" and ": " and each word between them stand as one element.

\* urllib.parse.urlparse(url): the netloc, the path and the query.
UrlParse(url) ==
    LET absolute == Len(url) >= 2 /\ url[2] = "://"
        netloc == IF absolute /\ Len(url) >= 3 /\ url[3] \notin {"/", "?"}
                  THEN url[3] ELSE ""
        rest == IF ~absolute THEN url
                ELSE IF netloc = "" THEN Drop(url, 2) ELSE Drop(url, 3)
        q == Find("?", rest, 1)
    IN [netloc |-> netloc,
        path |-> IF q = 0 THEN rest ELSE SubSeq(rest, 1, q - 1),
        query |-> IF q = 0 THEN <<>> ELSE Drop(rest, q)]

\* main, -u: the host and the path taken from the url the user gave.
MainHostPath(url) ==
    LET s == Find("://", url, 1)
        e == IF s = 0 THEN 0 ELSE Find("://", url, s + 1)
        \* url.split("://")[1]
        after == IF s = 0 THEN url
                 ELSE IF e = 0 THEN Drop(url, s) ELSE SubSeq(url, s + 1, e - 1)
        \* url.split("/", 1)
        slash == Find("/", after, 1)
        h == IF slash = 0 THEN after ELSE SubSeq(after, 1, slash - 1)
        p == IF slash = 0 THEN <<>> ELSE Drop(after, slash)
    IN [host |-> h, path |-> IF p # <<>> THEN <<"/">> \o p ELSE <<"/">>]

CRLF == <<CR, LF>>

StatusLine(version, code) == <<version, " ", code, " ", "reason">>
HeaderLine(name, value) == <<name, ": ">> \o value

\* The text of a response: status line, header lines, empty line, body.
ResponseText(status, headers, body) ==
    Join(CRLF, <<status>> \o headers) \o CRLF \o CRLF \o body

\* response.split(b"\r\n\r\n", 1), the body: what follows the first empty
\* line, nothing when there is none.
BodyOf(response) ==
    LET i == FindLit(CRLF \o CRLF, response, 1)
    IN IF i = 0 THEN <<>> ELSE Drop(response, i + 3)

\* str.splitlines()
SplitLines(s) ==
    LET pieces == Split(UniversalNewlines(s), LF)
    IN IF pieces[Len(pieces)] = <<>> THEN SubSeq(pieces, 1, Len(pieces) - 1)
       ELSE pieces

\* str.lower() of a header name
Lower(word) == IF word = "Location" THEN "location" ELSE word

RedirectCodes == {"301", "302"}

\* go2web: 'HTTP/1.1 301' in response_text or 'HTTP/1.1 302' in response_text
G_IsRedirect(response) ==
    \E code \in RedirectCodes : FindLit(<<"HTTP/1.1", " ", code>>, response, 1) > 0

RECURSIVE G_LocationAt(_, _)
\* go2web: re.search(r"Location: (http[^\r\n]+)", response_text): the index of
\* the first match from i on, 0 if there is none.
G_LocationAt(response, i) ==
    LET j == FindLit(<<"Location", ": ">>, response, i) IN
    IF j = 0 THEN 0
    ELSE IF /\ j + 3 <= Len(response)
            /\ response[j + 2] \in {"http", "https"}
            /\ response[j + 3] \notin {CR, LF}
         THEN j
         ELSE G_LocationAt(response, j + 1)

\* go2web: match.group(1), the text from http up to the end of the line.
G_Location(response) ==
    LET j == G_LocationAt(response, 1)
        n == RunLen({c \in Chars(response) : c \notin {CR, LF}}, response, j + 2)
    IN SubSeq(response, j + 2, j + 1 + n)

\* lab5: response.startswith("HTTP/1.1 301") or response.startswith("HTTP/1.1 302")
L5_IsRedirect(response) ==
    \E code \in RedirectCodes : IsPrefix(<<"HTTP/1.1", " ", code>>, response)

\* lab5: the lines of the response that start with "location:", any case.
L5_LocationLines(response) ==
    SelectSeq(SplitLines(response),
              LAMBDA line : /\ Len(line) >= 2
                            /\ Lower(line[1]) = "location"
                            /\ line[2] \in {": ", ":"})

\* lab5: location, line.split(":", 1)[1].strip() of the first such line; None
\* when there is none.
L5_Location(response) ==
    IF L5_LocationLines(response) = <<>> THEN None
    ELSE Str(Strip(Drop(L5_LocationLines(response)[1], 2)))

\* ----------------------------------------------------- the cache on its own

Revisions == {"go2web", "lab5"}

\* clean_html is not being run on its own.
HtmlIdle ==
    /\ hpc = "none"
    /\ html = <<>>
    /\ cleaned = <<>>
    /\ again = <<>>

NoOutput == <<"nothing">>
ErrStr(e) == <<"errstr", e>>            \* the text f"Error: {e}"
Traceback(e) == <<"traceback", e>>      \* an exception nothing caught

\* The command line tool is not run.
FetchIdle ==
    /\ pc = "none"
    /\ server = <<>>
    /\ caller = ""
    /\ ckey = <<>>
    /\ depth = 0
    /\ host = <<>>
    /\ path = <<>>
    /\ follow = TRUE
    /\ opened = {}
    /\ resp = <<>>
    /\ exc = ""
    /\ result = None
    /\ out = NoOutput
    /\ before = <<>>
    /\ neterr = FALSE
    /\ cacheerr = FALSE
    /\ fetched = None
    /\ log = <<>>
    /\ prev = <<>>

\* No second process runs.
RaceIdle ==
    /\ wpc = "none"
    /\ wval = <<>>
    /\ wrest = <<>>
    /\ rpc = "none"
    /\ rdata = <<>>
    /\ rret = None

\* What the last store call that changed the file of a key left in it.
NoCall == <<"none">>
StoreCall(old, value, t, io) ==
    CASE io = "ok" -> <<"store", value, t>>
      [] io = "write_fails" -> NoCall
      [] OTHER -> old

Op(name, key, io, ret) == [op |-> name, key |-> key, io |-> io, ret |-> ret]

CacheInit ==
    /\ now = 0
    /\ rev \in Revisions
    /\ cache = [u \in Urls |-> NoFile]
    /\ l5cache = [u \in Urls |-> NoFile]
    /\ written = [u \in Urls |-> NoCall]
    /\ last = Op("start", <<>>, "ok", None)
    /\ RaceIdle
    /\ HtmlIdle
    /\ FetchIdle

\* The clock advances between two operations.
Tick ==
    /\ \E d \in TickSteps :
        /\ now + d <= MaxTime
        /\ now' = now + d
    /\ last' = Op("tick", <<>>, "ok", None)
    /\ UNCHANGED <<rev, cache, l5cache, written, raceVars, htmlVars, fetchVars>>

StoreInCache ==
    /\ rev = "go2web"
    /\ \E url \in Urls, response \in Payloads, io \in StoreIO :
        /\ cache' = store_in_cache(cache, url, response, now, io)
        /\ written' = [written EXCEPT ![url] = StoreCall(written[url], response, now, io)]
        /\ last' = Op("store", url, io, None)
    /\ UNCHANGED <<now, rev, l5cache, raceVars, htmlVars, fetchVars>>

\* A lookup that deletes the record it finds dead, which get_from_cache
\* does not do.
GetFromCacheEvicting ==
    /\ rev = "go2web"
    /\ \E url \in Urls, io \in LoadIO :
        /\ last' = Op("lookup", url, io, get_from_cache(cache, url, now, io))
        /\ cache' = IF get_from_cache(cache, url, now, io) = None
                    THEN [cache EXCEPT ![url] = NoFile] ELSE cache
    /\ UNCHANGED <<now, rev, l5cache, written, raceVars, htmlVars, fetchVars>>

GetFromCache ==
    /\ rev = "go2web"
    /\ \E url \in Urls, io \in LoadIO :
        last' = Op("lookup", url, io, get_from_cache(cache, url, now, io))
    /\ UNCHANGED <<now, rev, cache, l5cache, written, raceVars, htmlVars, fetchVars>>

CacheResponse ==
    /\ rev = "lab5"
    /\ \E key \in Urls, data \in Payloads, io \in StoreIO :
        /\ l5cache' = cache_response(l5cache, key, data, now, io)
        /\ written' = [written EXCEPT ![key] = StoreCall(written[key], data, now, io)]
        /\ last' = Op("store", key, io, IF io = "ok" THEN None ELSE Raise("IOError"))
    /\ UNCHANGED <<now, rev, cache, raceVars, htmlVars, fetchVars>>

GetCachedResponse ==
    /\ rev = "lab5"
    /\ \E key \in Urls, io \in LoadIO :
        last' = Op("lookup", key, io, get_cached_response(l5cache, key, io))
    /\ UNCHANGED <<now, rev, cache, l5cache, written, raceVars, htmlVars, fetchVars>>

CacheNext ==
    \/ Tick
    \/ StoreInCache
    \/ GetFromCache
    \/ CacheResponse
    \/ GetCachedResponse

SpecCache == CacheInit /\ [][CacheNext]_vars

\* ------------------------------------- two processes sharing a cache file

\* One process stores a new value for RaceUrl while another looks RaceUrl up.
\* Each system call (the truncating open, a write, a read) is one step.
RaceUrl == <<"a.example", "/">>
RacePayloads == {<<>>, <<"O", "K">>, <<"n", "e", "w", "e", "r">>}

\* FileIO.readall, one read: the text from the reader's offset to the end of
\* the file as it is now.
ReadChunk(file, offset) == SubSeq(file, offset + 1, Len(file))

RaceInit ==
    /\ now = 0
    /\ rev \in Revisions
    /\ \E v1 \in RacePayloads :
        /\ cache = [u \in Urls |->
                      IF rev = "go2web" /\ u = RaceUrl
                      THEN JsonDump(0, u, v1) ELSE NoFile]
        /\ l5cache = [u \in Urls |->
                      IF rev = "lab5" /\ u = RaceUrl
                      THEN L5File(v1, 0) ELSE NoFile]
        /\ written = [u \in Urls |->
                      IF u = RaceUrl THEN <<"store", v1, 0>> ELSE NoCall]
    /\ last = Op("store", RaceUrl, "ok", None)
    /\ wpc = "start"
    /\ wval \in RacePayloads
    /\ wrest = <<>>
    /\ rpc = "start"
    /\ rdata = <<>>
    /\ rret = None
    /\ HtmlIdle
    /\ FetchIdle

\* store_in_cache: open(cache_file, 'w') truncates the file.
StoreOpen ==
    /\ rev = "go2web"
    /\ wpc = "start"
    /\ cache' = [cache EXCEPT ![RaceUrl] = <<>>]
    /\ wrest' = JsonDump(now, RaceUrl, wval)
    /\ wpc' = "writing"
    /\ UNCHANGED <<now, rev, l5cache, cacheVars, htmlVars, fetchVars, wval, rpc, rdata, rret>>

\* store_in_cache: json.dump fills the file buffer, which is written out
\* each time it is full.
StoreFlush ==
    /\ rev = "go2web"
    /\ wpc = "writing"
    /\ \E n \in 1..(Len(wrest) - 1) :
        /\ cache' = [cache EXCEPT ![RaceUrl] = @ \o SubSeq(wrest, 1, n)]
        /\ wrest' = SubSeq(wrest, n + 1, Len(wrest))
    /\ UNCHANGED <<now, rev, l5cache, cacheVars, htmlVars, fetchVars, wpc, wval, rpc, rdata, rret>>

\* store_in_cache: leaving the with block writes the rest and closes the file.
StoreClose ==
    /\ rev = "go2web"
    /\ wpc = "writing"
    /\ cache' = [cache EXCEPT ![RaceUrl] = @ \o wrest]
    /\ wrest' = <<>>
    /\ wpc' = "closed"
    /\ UNCHANGED <<now, rev, l5cache, cacheVars, htmlVars, fetchVars, wval, rpc, rdata, rret>>

\* get_from_cache: os.path.exists and open(cache_file, 'r').
LookupOpen ==
    /\ rev = "go2web"
    /\ rpc = "start"
    /\ rpc' = IF cache[RaceUrl] = NoFile THEN "done" ELSE "reading"
    /\ UNCHANGED <<now, rev, cache, l5cache, cacheVars, htmlVars, fetchVars, wpc, wval, wrest, rdata, rret>>

\* get_from_cache: json.load reads up to the end of the file.
LookupRead ==
    /\ rev = "go2web"
    /\ rpc = "reading"
    /\ LET chunk == ReadChunk(cache[RaceUrl], Len(rdata)) IN
        /\ rdata' = rdata \o chunk
        /\ rpc' = IF chunk = <<>> THEN "read" ELSE "reading"
    /\ UNCHANGED <<now, rev, cache, l5cache, cacheVars, htmlVars, fetchVars, wpc, wval, wrest, rret>>

\* get_from_cache: the text is parsed and the record judged.
LookupReturn ==
    /\ rev = "go2web"
    /\ rpc = "read"
    /\ rret' = CacheDataResult(rdata, now)
    /\ rpc' = "done"
    /\ UNCHANGED <<now, rev, cache, l5cache, cacheVars, htmlVars, fetchVars, wpc, wval, wrest, rdata>>

\* cache_response: open(.., "w") truncates the file.
L5StoreOpen ==
    /\ rev = "lab5"
    /\ wpc = "start"
    /\ l5cache' = [l5cache EXCEPT ![RaceUrl] = L5File(<<>>, now)]
    /\ wrest' = wval
    /\ wpc' = "writing"
    /\ UNCHANGED <<now, rev, cache, cacheVars, htmlVars, fetchVars, wval, rpc, rdata, rret>>

\* cache_response: f.write(data) and the close of the file.
L5StoreClose ==
    /\ rev = "lab5"
    /\ wpc = "writing"
    /\ l5cache' = [l5cache EXCEPT ![RaceUrl] = L5File(wrest, now)]
    /\ wrest' = <<>>
    /\ wpc' = "closed"
    /\ UNCHANGED <<now, rev, cache, cacheVars, htmlVars, fetchVars, wval, rpc, rdata, rret>>

\* get_cached_response: os.path.exists and open(cache_file, "r").
L5LookupOpen ==
    /\ rev = "lab5"
    /\ rpc = "start"
    /\ rpc' = IF l5cache[RaceUrl] = NoFile THEN "done" ELSE "reading"
    /\ UNCHANGED <<now, rev, cache, l5cache, cacheVars, htmlVars, fetchVars, wpc, wval, wrest, rdata, rret>>

\* get_cached_response: f.read() reads up to the end of the file.
L5LookupRead ==
    /\ rev = "lab5"
    /\ rpc = "reading"
    /\ LET chunk == ReadChunk(l5cache[RaceUrl][2], Len(rdata)) IN
        /\ rdata' = rdata \o chunk
        /\ rpc' = IF chunk = <<>> THEN "read" ELSE "reading"
    /\ UNCHANGED <<now, rev, cache, l5cache, cacheVars, htmlVars, fetchVars, wpc, wval, wrest, rret>>

\* get_cached_response: the text read is returned.
L5LookupReturn ==
    /\ rev = "lab5"
    /\ rpc = "read"
    /\ rret' = Str(UniversalNewlines(rdata))
    /\ rpc' = "done"
    /\ UNCHANGED <<now, rev, cache, l5cache, cacheVars, htmlVars, fetchVars, wpc, wval, wrest, rdata>>

RaceNext ==
    \/ StoreOpen
    \/ StoreFlush
    \/ StoreClose
    \/ LookupOpen
    \/ LookupRead
    \/ LookupReturn
    \/ L5StoreOpen
    \/ L5StoreClose
    \/ L5LookupOpen
    \/ L5LookupRead
    \/ L5LookupReturn

SpecRace == RaceInit /\ [][RaceNext]_vars

\* ------------------------------------------------- clean_html on its own

\* The pieces of markup and text the inputs are put together from.
HtmlPieces ==
    { <<"&", "l", "t", ";">>, <<"&", "g", "t", ";">>, <<"&", "a", "m", "p", ";">>,
      <<"l", "t", ";">>, <<"<">>, <<">">>, <<"a">>, <<"1">>, <<LF>>, <<" ">>,
      <<"<", "p", ">">>, <<"<", "/", "p", ">">>,
      <<"<", "s", "c", "r", "i", "p", "t", ">">>,
      <<"<", "/", "s", "c", "r", "i", "p", "t", ">">> }

RECURSIVE HtmlInputs(_)
\* The texts made of at most n pieces.
HtmlInputs(n) ==
    IF n = 0 THEN {<<>>}
    ELSE HtmlInputs(n - 1) \cup {p \o t : p \in HtmlPieces, t \in HtmlInputs(n - 1)}

\* The lines of the inputs that are put together line by line: text, and
\* what the junk pattern [0-9]+\s*\> matches.
HtmlLineKinds == { <<"a">>, <<"1", ">">>, <<"1", " ", ">">> }

RECURSIVE HtmlLines(_)
\* The texts of at most n lines, each ended by a newline.
HtmlLines(n) ==
    IF n = 0 THEN {<<>>}
    ELSE HtmlLines(n - 1)
            \cup {l \o <<LF>> \o t : l \in HtmlLineKinds, t \in HtmlLines(n - 1)}

HtmlInit ==
    /\ hpc = "input"
    /\ html \in HtmlInputs(MaxPieces) \cup HtmlLines(MaxLines)
    /\ cleaned = <<>>
    /\ again = <<>>
    /\ now = 0
    /\ rev = "go2web"
    /\ cache = [u \in Urls |-> NoFile]
    /\ l5cache = [u \in Urls |-> NoFile]
    /\ written = [u \in Urls |-> NoCall]
    /\ last = Op("start", <<>>, "ok", None)
    /\ RaceIdle
    /\ FetchIdle

\* clean_html(html)
CleanHtml ==
    /\ hpc = "input"
    /\ cleaned' = clean_html(html)
    /\ hpc' = "cleaned"
    /\ UNCHANGED <<html, again, storeVars, raceVars, fetchVars>>

\* clean_html run on its own output
CleanHtmlAgain ==
    /\ hpc = "cleaned"
    /\ again' = clean_html(cleaned)
    /\ hpc' = "recleaned"
    /\ UNCHANGED <<html, cleaned, storeVars, raceVars, fetchVars>>

HtmlNext ==
    \/ CleanHtml
    \/ CleanHtmlAgain

SpecHtml == HtmlInit /\ [][HtmlNext]_vars

\* --------------------------------------------------- one run of the tool

MaxDepth == 12          \* stands for the interpreter's recursion limit
MaxAnchors == 15        \* the result anchors of a search page, at most

\* The urls the user asks for: with and without a scheme, with and without
\* a path.
UserUrls ==
    { <<"http", "://", "a.example", "/">>, <<"http", "://", "b.example", "/", "x">>,
      <<"http", "://", "a.example">>, <<"b.example", "/", "x">>, <<"a.example">> }

SearchHost == "html.duckduckgo.com"
\* f"/html/?q={encoded_query}"
SearchPath == <<"/", "html", "/", "?", "q=term">>
\* lab5: f"https://html.duckduckgo.com/html/?q={quote(query)}"
SearchUrl == <<"https", "://", SearchHost>> \o SearchPath

\* The files the go2web cache may hold: one per url f"{host}{path}" that is
\* requested, one for the search path.
FetchKeys ==
    { <<"a.example", "/">>, <<"b.example", "/", "x">>, <<"b.example">>, SearchPath,
      <<SearchHost>> \o SearchPath }
\* The files the lab5 cache may hold: one per url the key is the MD5 of.
L5Keys == UserUrls \cup {SearchUrl}

\* bool(v) is true: v is neither None nor the empty text.
Truthy(v) == v # None /\ v # Str(<<>>)

\* s[:n]
Take(s, n) == SubSeq(s, 1, IF Len(s) < n THEN Len(s) ELSE n)

LocA == <<"http", "://", "a.example", "/">>
LocB == <<"http", "://", "b.example", "/", "x">>
LocNoPath == <<"http", "://", "b.example">>
Moved == <<"m", "o", "v", "e", "d">>

Body200(body) ==
    ResponseText(StatusLine("HTTP/1.1", "200"),
                 <<HeaderLine("Content-Type", <<"text/html">>)>>, body)
Redirect(version, code, name, location) ==
    ResponseText(StatusLine(version, code), <<HeaderLine(name, location)>>, Moved)

\* The text of an earlier response kept in the cache.
CachedText == <<"c", "a", "c", "h", "e", "d">>

\* A page that quotes a redirect response in its body.
QuotedRedirect ==
    Body200(<<"HTTP/1.1", " ", "301", LF>> \o HeaderLine("Location", LocA))

Sites == {<<"a.example">>, <<"b.example">>}
Site(ra, rb) == [h \in Sites |-> IF h = <<"a.example">> THEN ra ELSE rb]

\* What the two hosts answer to a GET, whatever the path.
Servers ==
    { Site(Body200(<<"O", "K">>), Body200(<<"O", "K">>)),
      Site(Redirect("HTTP/1.1", "301", "Location", LocB), Body200(<<"O", "K">>)),
      Site(Redirect("HTTP/1.1", "302", "Location", LocB), Body200(<<>>)),
      Site(Redirect("HTTP/1.1", "302", "Location", LocA),
           Redirect("HTTP/1.1", "301", "Location", LocB)),
      Site(Redirect("HTTP/1.1", "301", "Location", LocB),
           Redirect("HTTP/1.1", "302", "Location", LocA)),
      Site(Redirect("HTTP/1.1", "301", "location", LocB), Body200(<<"O", "K">>)),
      Site(Redirect("HTTP/1.0", "301", "Location", LocB), Body200(<<"O", "K">>)),
      Site(QuotedRedirect, Body200(<<"O", "K">>)),
      Site(Redirect("HTTP/1.1", "301", "Location", LocNoPath), Body200(<<"O", "K">>)) }

\* ------------------------------------------------------- the search page

\* The url of the k-th result.
ResultUrl(k) == "https://r" \o ToString(k)
HttpUrls == {ResultUrl(k) : k \in 1..MaxAnchors}

\* In the text of a search page the words of a tag stand as one element.
TitleOpen == <<"<", "d", "i", "v", " ", "class=\"result__title\"", ">">>
TitleClose == <<"<", "/", "d", "i", "v", ">">>
AnchorOpen == <<"<", "a rel=\"nofollow\" href=", QUOTE>>
AnchorClose == <<"<", "/a", ">", LF>>
Title == <<"t">>

\* One result of the search page: an anchor.
Anchor(k) == AnchorOpen \o <<ResultUrl(k), QUOTE, ">">> \o Title \o AnchorClose

RECURSIVE Anchors(_)
Anchors(ks) == IF ks = <<>> THEN <<>> ELSE Anchor(Head(ks)) \o Anchors(Tail(ks))

\* The body of a search page whose results have the urls numbered ks: the
\* anchors, inside an element of class result__title.
PageBody(ks) == TitleOpen \o Anchors(ks) \o TitleClose

\* The url numbers of the pages the search host serves: all different; the
\* first one twice; three results; none.
ResultLists ==
    { [i \in 1..MaxAnchors |-> i],
      [i \in 1..MaxAnchors |-> IF i = 1 THEN 1 ELSE i - 1],
      <<1, 2, 3>>,
      <<>> }

\* The pages, and a page the connection cut short inside its last anchor.
SearchResponses ==
    { Body200(PageBody(ks)) : ks \in ResultLists }
        \cup { Body200(TitleOpen \o Anchors(<<1, 2>>) \o AnchorOpen \o <<ResultUrl(3), QUOTE>>) }

RECURSIVE FindLinks(_)
\* go2web: re.findall(r'<a rel="nofollow" href="(https?://[^"]+)"', response)
FindLinks(response) ==
    LET i == FindLit(AnchorOpen, response, 1) IN
    IF i = 0 THEN <<>>
    ELSE LET u == i + Len(AnchorOpen)
             n == RunLen({c \in Chars(response) : c # QUOTE}, response, u)
         IN IF /\ u <= Len(response)
               /\ response[u] \in HttpUrls
               /\ u + n <= Len(response)
            THEN <<SubSeq(response, u, u + n - 1)>> \o FindLinks(Drop(response, u + n))
            ELSE FindLinks(Drop(response, i))

RECURSIVE CompleteAnchors(_)
\* The anchors of a text that are complete, each as title and href, in
\* document order.
CompleteAnchors(text) ==
    LET i == FindLit(AnchorOpen, text, 1) IN
    IF i = 0 THEN <<>>
    ELSE LET u == i + Len(AnchorOpen)
             e == Find("<", text, u + 3)
         IN IF /\ u + 2 <= Len(text)
               /\ text[u + 1] = QUOTE
               /\ text[u + 2] = ">"
               /\ e > 0
            THEN <<[title |-> Strip(SubSeq(text, u + 3, e - 1)), href |-> text[u]]>>
                     \o CompleteAnchors(Drop(text, e - 1))
            ELSE CompleteAnchors(Drop(text, i))

\* lab5: soup.select(".result__title a"): the anchors inside the element of
\* class result__title.
SelectResults(body) ==
    LET o == FindLit(TitleOpen, body, 1)
        c == IF o = 0 THEN 0 ELSE FindLit(TitleClose, body, o)
    IN IF o = 0 THEN <<>>
       ELSE CompleteAnchors(SubSeq(body, o + Len(TitleOpen),
                                   IF c = 0 THEN Len(body) ELSE c - 1))

\* lab5, clean_html: BeautifulSoup(html).get_text(separator="\n", strip=True)
\* of a text that holds no markup is the text, stripped.
get_text(body) == Strip(body)

\* What a host answers.
Answers(h) ==
    IF h = <<SearchHost>> THEN SearchResponses
    ELSE IF h \in Sites THEN {server[h]}
    ELSE {}

\* The run has not started.
FetchStart ==
    /\ pc = "start"
    /\ server \in Servers
    /\ caller = ""
    /\ ckey = <<>>
    /\ depth = 0
    /\ host = <<>>
    /\ path = <<>>
    /\ follow = TRUE
    /\ opened = {}
    /\ resp = <<>>
    /\ exc = ""
    /\ result = None
    /\ out = NoOutput
    /\ before = <<>>
    /\ neterr = FALSE
    /\ cacheerr = FALSE
    /\ fetched = None
    /\ log = <<>>
    /\ prev = <<>>

\* The cache holds nothing, or what an earlier run at time 0 stored for one
\* of the urls.
FetchInit ==
    /\ now = 0
    /\ rev \in Revisions
    /\ \E prior \in UserUrls \cup {<<>>} :
        LET gkey == MainHostPath(prior).host \o MainHostPath(prior).path
            nocache == [k \in FetchKeys |-> NoFile]
            nol5cache == [k \in L5Keys |-> NoFile]
            nowritten == [k \in FetchKeys \cup L5Keys |-> NoCall]
        IN IF prior = <<>>
           THEN cache = nocache /\ l5cache = nol5cache /\ written = nowritten
           ELSE IF rev = "go2web"
           THEN /\ cache = store_in_cache(nocache, gkey, CachedText, 0, "ok")
                /\ l5cache = nol5cache
                /\ written = [nowritten EXCEPT ![gkey] = StoreCall(NoCall, CachedText, 0, "ok")]
           ELSE /\ cache = nocache
                /\ l5cache = cache_response(nol5cache, prior, CachedText, 0, "ok")
                /\ written = [nowritten EXCEPT ![prior] = StoreCall(NoCall, CachedText, 0, "ok")]
    /\ last = Op("start", <<>>, "ok", None)
    /\ RaceIdle
    /\ HtmlIdle
    /\ FetchStart

\* The operating system outcomes a lookup can meet: none but success when
\* there is no file to open.
LookupIO(file) == IF file = NoFile THEN {"ok"} ELSE LoadIO

\* Time passes before the run.
Wait ==
    /\ pc \in {"start", "again"}
    /\ Tick

\* The run before this one, if there was one: the request it started with
\* (go2web: host and path; lab5: the url), what it put out, when it ran, and
\* whether it made one request only.
Ran(req, output, at, direct) == <<req, output, at, direct>>
PrevReq == prev[1]
PrevOut == prev[2]
PrevAt == prev[3]
PrevDirect == prev[4]

\* A fetch that met no failure is over, and the user gives the same command
\* once more: a new process, with the cache directory as the first left it.
RunAgain ==
    /\ pc = "done"
    /\ caller = "url"
    /\ prev = <<>>
    /\ ~neterr
    /\ ~cacheerr
    /\ fetched # None
    /\ out = fetched
    /\ prev' = Ran(IF rev = "go2web" THEN log[1] ELSE ckey, out, now, Len(log) = 1)
    /\ pc' = "again"
    /\ caller' = ""
    /\ ckey' = <<>>
    /\ depth' = 0
    /\ host' = <<>>
    /\ path' = <<>>
    /\ follow' = TRUE
    /\ opened' = {}
    /\ resp' = <<>>
    /\ exc' = ""
    /\ result' = None
    /\ out' = NoOutput
    /\ before' = <<>>
    /\ neterr' = FALSE
    /\ cacheerr' = FALSE
    /\ fetched' = None
    /\ log' = <<>>
    /\ UNCHANGED <<storeVars, raceVars, htmlVars, server>>

\* ------------------------------------------------------------- go2web

\* main, -u: the host and the path are cut out of the url.
MainUrl ==
    /\ pc \in {"start", "again"}
    /\ rev = "go2web"
    /\ \E url \in UserUrls :
        /\ pc = "again" => <<MainHostPath(url).host, MainHostPath(url).path>> = PrevReq
        /\ host' = MainHostPath(url).host
        /\ path' = MainHostPath(url).path
    /\ caller' = "url"
    /\ before' = <<cache, l5cache>>
    /\ pc' = "call"
    /\ UNCHANGED <<storeVars, raceVars, htmlVars, prev, server, ckey, depth, follow, opened,
                   resp, exc, result, out, neterr, cacheerr, fetched, log>>

\* main, -s, and search_duckduckgo up to its call of make_http_request.
SearchDuckduckgo ==
    /\ pc = "start"
    /\ rev = "go2web"
    /\ caller' = "search"
    /\ ckey' = SearchPath
    /\ before' = <<cache, l5cache>>
    /\ \E io \in LookupIO(cache[SearchPath]) :
       \E cached_response \in {get_from_cache(cache, SearchPath, now, io)} :
        /\ cacheerr' = (io # "ok")
        /\ IF IsRaise(cached_response)
           THEN /\ exc' = cached_response[2]
                /\ out' = Traceback(cached_response[2])
                /\ pc' = "done"
                /\ UNCHANGED <<host, path>>
           ELSE IF Truthy(cached_response)
           THEN /\ out' = cached_response
                /\ pc' = "done"
                /\ UNCHANGED <<host, path, exc>>
           ELSE /\ host' = <<SearchHost>>
                /\ path' = SearchPath
                /\ pc' = "call"
                /\ UNCHANGED <<out, exc>>
    /\ UNCHANGED <<storeVars, raceVars, htmlVars, prev, server, depth, follow, opened, resp,
                   result, neterr, fetched, log>>

\* make_http_request is entered: the cache is looked up.  An exception of the
\* lookup leaves the call; the try of the calling make_http_request, if there
\* is one, catches it.
G_Call ==
    /\ pc = "call"
    /\ rev = "go2web"
    /\ depth' = depth + 1
    /\ \E io \in LookupIO(cache[host \o path]) :
       \E cached_response \in {get_from_cache(cache, host \o path, now, io)} :
        /\ cacheerr' = (cacheerr \/ io # "ok")
        /\ IF IsRaise(cached_response)
           THEN /\ exc' = cached_response[2]
                /\ IF depth = 0
                   THEN /\ out' = Traceback(cached_response[2])
                        /\ pc' = "done"
                        /\ UNCHANGED result
                   ELSE /\ result' = ErrStr(cached_response[2])
                        /\ pc' = "return"
                        /\ UNCHANGED out
           ELSE IF Truthy(cached_response)
           THEN /\ result' = cached_response
                /\ pc' = "return"
                /\ UNCHANGED <<out, exc>>
           ELSE /\ pc' = "connect"
                /\ UNCHANGED <<result, out, exc>>
    /\ UNCHANGED <<storeVars, raceVars, htmlVars, prev, server, caller, ckey, host, path,
                   follow, opened, resp, before, neterr, fetched, log>>

\* socket.socket(..) and s.connect((host, 80))
G_Connect ==
    /\ pc = "connect"
    /\ rev = "go2web"
    /\ opened' = opened \cup {depth}
    /\ \E ok \in {b \in BOOLEAN : b => Answers(host) # {}} :
        IF ok
        THEN /\ pc' = "send"
             /\ UNCHANGED <<exc, neterr>>
        ELSE /\ exc' = "OSError"
             /\ neterr' = TRUE
             /\ pc' = "except"
    /\ UNCHANGED <<storeVars, raceVars, htmlVars, prev, server, caller, ckey, depth, host,
                   path, follow, resp, result, out, before, cacheerr, fetched, log>>

\* s.sendall(request.encode())
G_Send ==
    /\ pc = "send"
    /\ rev = "go2web"
    /\ \E ok \in BOOLEAN :
        IF ok
        THEN /\ log' = IF Len(log) < 2 THEN Append(log, <<host, path>>) ELSE log
             /\ pc' = "recv"
             /\ UNCHANGED <<exc, neterr>>
        ELSE /\ exc' = "OSError"
             /\ neterr' = TRUE
             /\ pc' = "except"
             /\ UNCHANGED log
    /\ UNCHANGED <<storeVars, raceVars, htmlVars, prev, server, caller, ckey, depth, host,
                   path, follow, opened, resp, result, out, before, cacheerr, fetched>>

\* The loop of s.recv(4096) up to the empty chunk.
G_Recv ==
    /\ pc = "recv"
    /\ rev = "go2web"
    /\ \/ /\ resp' \in Answers(host)
          /\ pc' = "close"
          /\ UNCHANGED <<exc, neterr>>
       \/ /\ exc' = "OSError"
          /\ neterr' = TRUE
          /\ pc' = "except"
          /\ UNCHANGED resp
    /\ UNCHANGED <<storeVars, raceVars, htmlVars, prev, server, caller, ckey, depth, host,
                   path, follow, opened, result, out, before, cacheerr, fetched, log>>

\* A call that goes on without s.close().
G_CloseSkipped ==
    /\ pc = "close"
    /\ rev = "go2web"
    /\ pc' = "handle"
    /\ UNCHANGED <<storeVars, raceVars, htmlVars, prev, server, caller, ckey, depth, host,
                   path, follow, opened, resp, exc, result, out, before, neterr,
                   cacheerr, fetched, log>>

\* s.close()
G_Close ==
    /\ pc = "close"
    /\ rev = "go2web"
    /\ opened' = opened \ {depth}
    /\ pc' = "handle"
    /\ UNCHANGED <<storeVars, raceVars, htmlVars, prev, server, caller, ckey, depth, host,
                   path, follow, resp, exc, result, out, before, neterr, cacheerr,
                   fetched, log>>

\* The response is in: a redirect is followed by a call of make_http_request
\* from inside the try (at the recursion limit the call raises RecursionError);
\* any other response is cut down to its body, cleaned, stored and returned.
G_Handle ==
    /\ pc = "handle"
    /\ rev = "go2web"
    /\ IF G_IsRedirect(resp) /\ G_LocationAt(resp, 1) > 0
       THEN \E parsed_url \in {UrlParse(G_Location(resp))} :
            /\ IF depth < MaxDepth
               THEN /\ host' = <<parsed_url.netloc>>
                    /\ path' = parsed_url.path
                    /\ pc' = "call"
                    /\ UNCHANGED exc
               ELSE /\ exc' = "RecursionError"
                    /\ pc' = "except"
                    /\ UNCHANGED <<host, path>>
            /\ UNCHANGED <<now, cache, l5cache, rev, written, last, result, cacheerr,
                           fetched>>
       ELSE \E cleaned_text \in {clean_html(BodyOf(resp))} :
            /\ \E io \in StoreIO :
                /\ cache' = store_in_cache(cache, host \o path, cleaned_text, now, io)
                /\ written' = [written EXCEPT ![host \o path] =
                                  StoreCall(written[host \o path], cleaned_text, now, io)]
                /\ cacheerr' = (cacheerr \/ io # "ok")
            /\ fetched' = Str(cleaned_text)
            /\ result' = Str(cleaned_text)
            /\ pc' = "return"
            /\ UNCHANGED <<now, l5cache, rev, last, host, path, exc>>
    /\ UNCHANGED <<raceVars, htmlVars, prev, server, caller, ckey, depth, follow, opened,
                   resp, out, before, neterr, log>>

\* except Exception as e: return f"Error: {e}".  Nothing closes the socket of
\* the call; it stays open until the interpreter finalises the object.
G_Except ==
    /\ pc = "except"
    /\ rev = "go2web"
    /\ result' = ErrStr(exc)
    /\ \E finalised \in {b \in BOOLEAN : b => depth \in opened} :
        opened' = IF finalised THEN opened \ {depth} ELSE opened
    /\ pc' = "return"
    /\ UNCHANGED <<storeVars, raceVars, htmlVars, prev, server, caller, ckey, depth, host,
                   path, follow, resp, exc, out, before, neterr, cacheerr, fetched, log>>

\* Every call returns what the call it made returned; main prints it.
MainPrint ==
    /\ pc = "return"
    /\ rev = "go2web"
    /\ caller = "url"
    /\ depth' = 0
    /\ out' = result
    /\ pc' = "done"
    /\ UNCHANGED <<storeVars, raceVars, htmlVars, prev, server, caller, ckey, host, path,
                   follow, opened, resp, exc, result, before, neterr, cacheerr,
                   fetched, log>>

\* The text of result (an error text holds no anchor).
ResultText(v) == IF v[1] = "errstr" THEN <<"Error: ", v[2]>> ELSE v[2]

NoResults == <<"No results found.">>

\* search_duckduckgo from the return of make_http_request on; main prints
\* what it returns.
SearchFinish ==
    /\ pc = "return"
    /\ rev = "go2web"
    /\ caller = "search"
    /\ depth' = 0
    /\ \E links \in {FindLinks(ResultText(result))} :
       IF links = <<>>
       THEN /\ out' = Str(NoResults)
            /\ fetched' = <<"links", <<>>>>
            /\ UNCHANGED <<cache, written, cacheerr>>
       ELSE \E joined \in {Join(<<LF>>, Take(links, 10))} :
            /\ \E io \in StoreIO :
                /\ cache' = store_in_cache(cache, SearchPath, joined, now, io)
                /\ written' = [written EXCEPT ![SearchPath] =
                                  StoreCall(written[SearchPath], joined, now, io)]
                /\ cacheerr' = (cacheerr \/ io # "ok")
            /\ out' = Str(joined)
            /\ fetched' = <<"links", Take(links, 10)>>
    /\ pc' = "done"
    /\ UNCHANGED <<now, l5cache, rev, last, raceVars, htmlVars, prev, server, caller, ckey,
                   host, path, follow, opened, resp, exc, result, before, neterr, log>>

\* --------------------------------------------------------------- lab5

\* go_to_url and search_web up to the call of make_http_request: the cache
\* is looked up under the url; nothing catches an exception of the lookup.
L5_Start(what, url, request_path) ==
    /\ caller' = what
    /\ ckey' = url
    /\ before' = <<cache, l5cache>>
    /\ \E io \in LookupIO(l5cache[url]) :
       \E cached_data \in {get_cached_response(l5cache, url, io)} :
        /\ cacheerr' = (io # "ok")
        /\ IF IsRaise(cached_data)
           THEN /\ exc' = cached_data[2]
                /\ out' = Traceback(cached_data[2])
                /\ pc' = "done"
                /\ UNCHANGED <<host, path, depth>>
           ELSE IF Truthy(cached_data)
           THEN /\ out' = cached_data
                /\ pc' = "done"
                /\ UNCHANGED <<host, path, depth, exc>>
           ELSE /\ host' = <<UrlParse(url).netloc>>
                /\ path' = request_path
                /\ depth' = 1
                /\ pc' = "connect"
                /\ UNCHANGED <<out, exc>>
    /\ UNCHANGED <<storeVars, raceVars, htmlVars, prev, server, follow, opened, resp, result,
                   neterr, fetched, log>>

\* parsed_url.path if parsed_url.path else "/"
PathOrRoot(parsed_url) == IF parsed_url.path # <<>> THEN parsed_url.path ELSE <<"/">>

GoToUrl ==
    /\ pc \in {"start", "again"}
    /\ rev = "lab5"
    /\ \E url \in UserUrls :
        /\ pc = "again" => url = PrevReq
        /\ L5_Start("url", url, PathOrRoot(UrlParse(url)))

SearchWeb ==
    /\ pc = "start"
    /\ rev = "lab5"
    /\ L5_Start("search", SearchUrl,
                UrlParse(SearchUrl).path \o <<"?">> \o UrlParse(SearchUrl).query)

\* An exception inside the with statement: the socket is closed on the way
\* out and nothing catches the exception.
L5_Raise(e) ==
    /\ opened' = opened \ {depth}
    /\ exc' = e
    /\ neterr' = TRUE
    /\ out' = Traceback(e)
    /\ pc' = "done"

\* with socket.socket(..) as s: s.connect((host, port))
L_Connect ==
    /\ pc = "connect"
    /\ rev = "lab5"
    /\ \E ok \in {b \in BOOLEAN : b => Answers(host) # {}} :
        IF ok
        THEN /\ opened' = opened \cup {depth}
             /\ pc' = "send"
             /\ UNCHANGED <<exc, neterr, out>>
        ELSE L5_Raise("OSError")
    /\ UNCHANGED <<storeVars, raceVars, htmlVars, prev, server, caller, ckey, depth, host,
                   path, follow, resp, result, before, cacheerr, fetched, log>>

\* s.sendall(request.encode())
L_Send ==
    /\ pc = "send"
    /\ rev = "lab5"
    /\ \E ok \in BOOLEAN :
        IF ok
        THEN /\ log' = IF Len(log) < 2 THEN Append(log, <<host, path>>) ELSE log
             /\ pc' = "recv"
             /\ UNCHANGED <<opened, exc, neterr, out>>
        ELSE L5_Raise("OSError") /\ UNCHANGED log
    /\ UNCHANGED <<storeVars, raceVars, htmlVars, prev, server, caller, ckey, depth, host,
                   path, follow, resp, result, before, cacheerr, fetched>>

\* The loop of s.recv(4096) up to the empty chunk, and the end of the with
\* statement, which closes the socket.
L_Recv ==
    /\ pc = "recv"
    /\ rev = "lab5"
    /\ \/ /\ resp' \in Answers(host)
          /\ opened' = opened \ {depth}
          /\ pc' = "handle"
          /\ UNCHANGED <<exc, neterr, out>>
       \/ L5_Raise("OSError") /\ UNCHANGED resp
    /\ UNCHANGED <<storeVars, raceVars, htmlVars, prev, server, caller, ckey, depth, host,
                   path, follow, result, before, cacheerr, fetched, log>>

\* make_http_request after the with statement: a redirect is followed by
\* follow_redirect, which calls make_http_request with follow_redirects=False;
\* any other response is returned.
L_Handle ==
    /\ pc = "handle"
    /\ rev = "lab5"
    /\ IF follow /\ L5_IsRedirect(resp) /\ Truthy(L5_Location(resp))
       THEN \E parsed_url \in {UrlParse(L5_Location(resp)[2])} :
            /\ host' = <<parsed_url.netloc>>
            /\ path' = PathOrRoot(parsed_url) \o
                          (IF parsed_url.query # <<>>
                           THEN <<"?">> \o parsed_url.query ELSE <<>>)
            /\ follow' = FALSE
            /\ depth' = depth + 1
            /\ pc' = "connect"
            /\ UNCHANGED result
       ELSE /\ result' = Str(resp)
            /\ pc' = "return"
            /\ UNCHANGED <<host, path, follow, depth>>
    /\ UNCHANGED <<storeVars, raceVars, htmlVars, prev, server, caller, ckey, opened, resp,
                   exc, out, before, neterr, cacheerr, fetched, log>>

\* The end of go_to_url and of search_web: the text is stored, then printed.
\* Nothing catches an exception of cache_response.
L5_StoreAndPrint(output) ==
    /\ depth' = 0
    /\ \E io \in StoreIO :
        /\ l5cache' = cache_response(l5cache, ckey, output, now, io)
        /\ written' = [written EXCEPT ![ckey] = StoreCall(written[ckey], output, now, io)]
        /\ cacheerr' = (cacheerr \/ io # "ok")
        /\ IF io = "ok"
           THEN out' = Str(output) /\ UNCHANGED exc
           ELSE out' = Traceback("IOError") /\ exc' = "IOError"
    /\ pc' = "done"

\* go_to_url from the return of make_http_request on.
GoToUrlFinish ==
    /\ pc = "return"
    /\ rev = "lab5"
    /\ caller = "url"
    /\ \E text \in {get_text(BodyOf(result[2]))} :
        /\ fetched' = Str(text)
        /\ L5_StoreAndPrint(text)
    /\ UNCHANGED <<now, cache, rev, last, raceVars, htmlVars, prev, server, caller, ckey,
                   host, path, follow, opened, resp, result, before, neterr, log>>

\* search_web from the return of make_http_request on.
SearchWebFinish ==
    /\ pc = "return"
    /\ rev = "lab5"
    /\ caller = "search"
    /\ \E selected \in {Take(SelectResults(BodyOf(result[2])), 10)} :
       LET results == [i \in DOMAIN selected |->
                          selected[i].title \o <<LF, selected[i].href, LF>>]
       IN /\ fetched' = <<"links", [i \in DOMAIN selected |-> <<selected[i].href>>]>>
          /\ L5_StoreAndPrint(Join(<<LF>>, results))
    /\ UNCHANGED <<now, cache, rev, last, raceVars, htmlVars, prev, server, caller, ckey,
                   host, path, follow, opened, resp, result, before, neterr, log>>

FetchNext ==
    \/ Wait
    \/ RunAgain
    \/ MainUrl
    \/ SearchDuckduckgo
    \/ G_Call
    \/ G_Connect
    \/ G_Send
    \/ G_Recv
    \/ G_Close
    \/ G_Handle
    \/ G_Except
    \/ MainPrint
    \/ SearchFinish
    \/ GoToUrl
    \/ SearchWeb
    \/ L_Connect
    \/ L_Send
    \/ L_Recv
    \/ L_Handle
    \/ GoToUrlFinish
    \/ SearchWebFinish

SpecFetch == FetchInit /\ [][FetchNext]_vars

\* The last operation was a lookup of key k that met no operating system
\* error, and the file of k comes from a store of value v at time t.
LookedUp(k, v, t) ==
    /\ last.op = "lookup"
    /\ last.key = k
    /\ last.io = "ok"
    /\ written[k] = <<"store", v, t>>

\* C1: a lookup of a key whose record was stored at time t returns absent
\* whenever now - t >= TTL (600 seconds, 600 included), although the record
\* still exists.
C1_ExpiredLookupIsAbsent ==
    \A k \in Urls, v \in Payloads, t \in 0..MaxTime :
        (LookedUp(k, v, t) /\ now - t >= CACHE_EXPIRATION) => last.ret = None

\* The part of C1 that go2web.py keeps: get_from_cache returns None from
\* now - t = 600 on and the stored content before.
C1_Go2webExpiry ==
    \A k \in Urls, v \in Payloads, t \in 0..MaxTime :
        (rev = "go2web" /\ LookedUp(k, v, t)) =>
            /\ now - t >= CACHE_EXPIRATION => last.ret = None /\ cache[k] # NoFile
            /\ now - t < CACHE_EXPIRATION => last.ret = Str(v)

C1_Go2webExpiredAt600 ==
    \E k \in Urls, v \in Payloads :
        rev = "go2web" /\ LookedUp(k, v, 0) /\ now = CACHE_EXPIRATION

\* C2: store(k, v) followed by lookup(k) within the TTL returns v unchanged,
\* for every payload v, the empty one included.
C2_RoundTrip ==
    \A k \in Urls, v \in Payloads, t \in 0..MaxTime :
        (LookedUp(k, v, t) /\ now - t < CACHE_EXPIRATION) => last.ret = Str(v)

\* The part of C2 that go2web.py keeps.
C2_Go2webRoundTrip ==
    \A k \in Urls, v \in Payloads, t \in 0..MaxTime :
        (rev = "go2web" /\ LookedUp(k, v, t) /\ now - t < CACHE_EXPIRATION)
            => last.ret = Str(v)

\* C7: while one process overwrites the live record v1 of a key with v2, a
\* lookup of the key by another process returns v1, v2 or absent, never a
\* partial or mixed payload.  (The empty text, which the callers of the
\* lookup take for absent, is let pass as absent here.)
C7_LookupNeverTorn ==
    rpc = "done" => rret \in {Str(written[RaceUrl][2]), Str(wval), None, Str(<<>>)}

\* The part of C7 that go2web.py keeps: a torn read of the JSON record does
\* not parse, and get_from_cache returns None for it.
C7_Go2webNeverTorn ==
    (rev = "go2web" /\ rpc = "done")
        => rret \in {Str(written[RaceUrl][2]), Str(wval), None}

\* ------------------------------------------------------------- one run

\* The redirects followed so far in the run.
Hops == IF depth = 0 THEN 0 ELSE depth - 1

\* C3: the number of redirect hops followed in one fetch is at most 10,
\* whatever the server answers, a server that always redirects included.
C3_RedirectHopsBounded == Hops <= 10

\* lab5 follows one redirect and no more.
C3_Lab5OneHop == rev = "lab5" => Hops <= 1

\* go2web ends a redirect loop at the recursion limit, with the text of the
\* RecursionError as its result.
C3_Go2webLoopEndsAtRecursionLimit ==
    rev = "go2web" /\ caller = "url" /\ pc = "done" /\ exc = "RecursionError"
        => out = ErrStr("RecursionError")

\* The run is a fetch that met no failure and whose first request was answered
\* by a redirect to location, where the host of location answers 200 with
\* body.
RedirectedTo(version, code, name, location, body) ==
    /\ pc = "done"
    /\ caller = "url"
    /\ ~neterr
    /\ ~cacheerr
    /\ Len(log) >= 1
    /\ server[log[1][1]] = Redirect(version, code, name, location)
    /\ server[<<UrlParse(location).netloc>>] = Body200(body)

\* The second request of the run went to the host and path of location and
\* the run put body out.
ResolvedTo(location, body) ==
    /\ Len(log) = 2
    /\ log[2] = <<<<UrlParse(location).netloc>>, UrlParse(location).path>>
    /\ out = Str(body)

\* C4: when the first response is a 301 or 302 with an absolute Location and
\* the server at that location answers 200 with body B, the second request
\* goes to the Location's host and path and the final result is B.
C4_RedirectResolved ==
    \A version \in {"HTTP/1.0", "HTTP/1.1"}, code \in RedirectCodes,
       name \in {"Location", "location"}, location \in {LocA, LocB},
       body \in {<<>>, <<"O", "K">>} :
        RedirectedTo(version, code, name, location, body)
            => ResolvedTo(location, body)

\* Both scripts resolve the redirect when the status line says HTTP/1.1, the
\* header is spelled Location and the cache held nothing at the start.
C4_CanonicalRedirectResolved ==
    \A code \in RedirectCodes, location \in {LocA, LocB},
       body \in {<<>>, <<"O", "K">>} :
        /\ RedirectedTo("HTTP/1.1", code, "Location", location, body)
        /\ before = <<[k \in FetchKeys |-> NoFile], [k \in L5Keys |-> NoFile]>>
        => ResolvedTo(location, body)

\* C5: a fetch that hits a connection failure leaves the cache as it was
\* before the fetch, and the user gets a formatted error string.
C5_ConnectionFailure ==
    pc = "done" /\ neterr
        => <<cache, l5cache>> = before /\ out[1] = "errstr"

\* A run that hits a connection failure stores nothing.
C5_NothingStored == pc = "done" /\ neterr => <<cache, l5cache>> = before

\* go2web -u turns a connection failure into an error string.
C5_Go2webFetchErrorString ==
    rev = "go2web" /\ caller = "url" /\ pc = "done" /\ neterr
        => out[1] = "errstr"

\* C6: a fetch during which a cache read or a cache write failed still
\* completes, and the user gets the fetched, extracted content.
C6_CacheFailuresIsolated ==
    pc = "done" /\ caller = "url" /\ cacheerr /\ ~neterr /\ exc # "RecursionError"
        => out[1] = "str" /\ (fetched # None => out = fetched)

\* go2web keeps the failures of the cache files to itself.
C6_Go2webCacheFailuresIsolated ==
    rev = "go2web" =>
       (pc = "done" /\ caller = "url" /\ cacheerr /\ ~neterr /\ exc # "RecursionError"
           => out[1] = "str" /\ (fetched # None => out = fetched))

\* C8: once the call that opened a socket has returned or failed, the socket
\* is closed.
C8_SocketClosed == pc \in {"return", "done"} => opened = {}

\* lab5: no socket is open outside the with statement.
C8_Lab5SocketClosed == rev = "lab5" /\ pc \notin {"send", "recv"} => opened = {}

\* go2web: the socket is closed when connect, send and receive all succeeded.
C8_Go2webClosedOnSuccess ==
    rev = "go2web" /\ pc \in {"handle", "return", "done"} /\ ~neterr => opened = {}

RECURSIVE Distinct(_)
\* The elements of a sequence, each kept where it occurs first.
Distinct(s) ==
    IF s = <<>> THEN <<>>
    ELSE LET rest == Distinct(SubSeq(s, 1, Len(s) - 1))
             x == s[Len(s)]
         IN IF \E i \in DOMAIN rest : rest[i] = x THEN rest ELSE Append(rest, x)

\* The urls of the result anchors of a page, in document order.
AnchorUrls(body) ==
    [i \in DOMAIN SelectResults(body) |-> <<SelectResults(body)[i].href>>]

\* The search met no failure and got its page from the server.
Searched ==
    /\ pc = "done"
    /\ caller = "search"
    /\ ~neterr
    /\ ~cacheerr
    /\ resp # <<>>

\* C9: the search puts out the first 10 distinct urls of the result anchors
\* of the page, in the order of their first occurrence.
C9_SearchResults ==
    Searched => fetched = <<"links", Take(Distinct(AnchorUrls(BodyOf(resp))), 10)>>

\* A search puts out 10 urls at most.
C9_AtMostTen == pc = "done" /\ caller = "search" /\ fetched # None => Len(fetched[2]) <= 10

\* lab5 puts out the urls of the first 10 result anchors, in document order.
C9_Lab5FirstTenAnchors ==
    rev = "lab5" /\ Searched => fetched = <<"links", Take(AnchorUrls(BodyOf(resp)), 10)>>

\* C10: for every input, the output of the HTML extractor holds neither the
\* character < nor the character >.
C10_NoAngleBrackets ==
    hpc # "input" => "<" \notin Chars(cleaned) /\ ">" \notin Chars(cleaned)

\* C11: for every input, the output of the HTML extractor never holds three
\* or more newline characters in a row, also when the removal of the junk
\* patterns, which runs after the newlines were collapsed, deletes whole lines.
C11_NoThreeNewlines ==
    hpc # "input" => FindLit(<<LF, LF, LF>>, cleaned, 1) = 0

\* The text holds a > or the entity that clean_html decodes to one.
HasGt(text) == ">" \in Chars(text) \/ FindLit(<<"g", "t", ";">>, text, 1) > 0

\* When the input gives the junk pattern nothing to match, the output holds
\* no empty line at all: the loop over the lines drops every empty line.
C11_NoJunkNoEmptyLine ==
    hpc # "input" /\ ~HasGt(html) => FindLit(<<LF, LF>>, cleaned, 1) = 0

\* C12: the HTML extractor is idempotent: run on its own output, it gives
\* that output back.
C12_Idempotent == hpc = "recleaned" => again = cleaned

\* The output for an input that holds none of the characters &, < and > is a
\* text clean_html gives back as it is.
C12_PlainInputFixed ==
    hpc = "recleaned" /\ Chars(html) \cap {"&", "<", ">"} = {} => again = cleaned

\* ------------------------------------------------------- the requests

\* C13: every request handed to the transport has a path that begins with
\* "/", the request made of the user's url and every request made of the
\* Location of a redirect alike, a Location with no path included.
C13_PathBeginsWithSlash ==
    pc \in {"connect", "send", "recv"} => IsPrefix(<<"/">>, path)

\* go2web, main: the path of the first request begins with "/" whatever the
\* url the user gave.
C13_Go2webMainPath ==
    rev = "go2web" /\ caller = "url" /\ depth = 1 /\ pc \in {"connect", "send", "recv"}
        => IsPrefix(<<"/">>, path)

\* lab5, follow_redirect: the path of the request made of a Location begins
\* with "/".
C13_Lab5RedirectPath ==
    rev = "lab5" /\ depth = 2 /\ pc \in {"connect", "send", "recv"}
        => IsPrefix(<<"/">>, path)

\* The run repeats a fetch that went to the server and met no failure, the
\* cache record that fetch left is within its time-to-live, and no cache file
\* operation has failed in this run.
Repeated == prev # <<>> /\ now - PrevAt < CACHE_EXPIRATION /\ ~cacheerr

\* The run has opened no connection and, when it is over, has put out what
\* the run before it put out.
FromCache ==
    /\ pc \notin {"connect", "send", "recv", "close", "handle", "except"}
    /\ log = <<>>
    /\ pc = "done" => out = PrevOut

\* C14: after a fetch of a request has completed successfully, a repeated
\* fetch of the same request within the TTL is answered from the cache and
\* opens no connection, also when the first fetch went through a redirect and
\* when the extracted text is empty.
C14_RepeatFromCache == Repeated => FromCache

\* Both scripts answer the repeated fetch from the cache when the first fetch
\* made one request only and the text it extracted is not empty.
C14_DirectNonEmptyFromCache ==
    Repeated /\ PrevDirect /\ PrevOut # Str(<<>>) => FromCache

\* lab5 keeps the text under the url the user gave: the repeated fetch is
\* answered from the cache after a redirect too, if the text is not empty.
C14_Lab5NonEmptyFromCache ==
    rev = "lab5" /\ prev # <<>> /\ ~cacheerr /\ PrevOut # Str(<<>>) => FromCache

\* ------------------------------------------------------- the redirects

\* The status code of a response: the second word of its first line.
StatusCode(response) ==
    IF Len(response) >= 3 /\ response[2] = " " THEN response[3] ELSE ""

\* The response has a header line named Location, in either spelling.
CarriesLocation(response) ==
    LET e == FindLit(CRLF \o CRLF, response, 1)
        headers == IF e = 0 THEN response ELSE SubSeq(response, 1, e - 1)
    IN \E name \in {"Location", "location"} :
        FindLit(CRLF \o <<name, ": ">>, headers, 1) > 0

\* make_http_request has taken resp for its final response: it returns it
\* (lab5) or the text of its body (go2web).
Returned == pc = "return" /\ (rev = "lab5" \/ fetched # None)

\* make_http_request has taken resp for a redirect and is about to make the
\* request for its Location.
Followed ==
    \/ rev = "go2web" /\ pc = "call" /\ depth >= 1
    \/ rev = "lab5" /\ pc = "connect" /\ depth = 2

\* C15: the response the redirect resolver returns has a status code other
\* than 301 and 302, or is a 301 or 302 with no Location header; it is never
\* a 301 or 302 that carries a Location, however long the chain of redirects.
C15_OnlyTerminalReturned ==
    Returned => ~(StatusCode(resp) \in RedirectCodes /\ CarriesLocation(resp))

\* go2web never returns a redirect that says HTTP/1.1 and spells the header
\* Location, at any hop.
C15_Go2webCanonicalNeverReturned ==
    rev = "go2web" /\ Returned =>
        \A code \in RedirectCodes, location \in {LocA, LocB, LocNoPath} :
            resp # Redirect("HTTP/1.1", code, "Location", location)

\* lab5 never returns an HTTP/1.1 redirect as the answer to its first request.
C15_Lab5FirstHopFollowed ==
    rev = "lab5" /\ Returned /\ depth = 1 /\ IsPrefix(<<"HTTP/1.1">>, resp) =>
        ~(StatusCode(resp) \in RedirectCodes /\ CarriesLocation(resp))

\* C16: a response is treated as a redirect if and only if the status code
\* of its status line is 301 or 302: a 200 response that quotes a redirect
\* status line and a Location line is not followed, and a 301 or 302 is
\* recognised whatever HTTP version its status line states.  (The second
\* half is stated of the first response of a run, which both scripts are
\* ready to follow.)
C16_RedirectIffStatus ==
    /\ Followed => StatusCode(resp) \in RedirectCodes
    /\ Returned /\ depth = 1 /\ CarriesLocation(resp)
          => StatusCode(resp) \notin RedirectCodes

\* lab5 follows a response only if its status code is 301 or 302.
C16_Lab5FollowsOnlyRedirects ==
    rev = "lab5" /\ Followed => StatusCode(resp) \in RedirectCodes

\* ------------------------------------------------- the cache, once more

\* C17: a lookup never changes the cache: whether the record of the key is
\* live, expired or absent, every stored record keeps its payload and its
\* creation time, so an expired record is not deleted and a hit does not make
\* a record younger.
C17_LookupLeavesCache ==
    [][last'.op = "lookup" => cache' = cache /\ l5cache' = l5cache]_vars

\* An expired record was looked up, and is still there.
C17_ExpiredLookedUp ==
    \E k \in Urls, v \in Payloads, t \in 0..MaxTime :
        /\ rev = "go2web"
        /\ LookedUp(k, v, t)
        /\ now - t >= CACHE_EXPIRATION
        /\ cache[k] = JsonDump(t, k, v)

\* C18: store always overwrites: after store(k, v) at time t, whatever k held
\* before, the cache holds for k one record with payload v and creation time
\* t, so that a lookup of k within the TTL of t returns v; the records of the
\* other keys are as their own last store left them.
C18_StoreOverwrites ==
    \A k \in Urls :
        written[k][1] = "store" =>
            LET v == written[k][2]
                t == written[k][3]
            IN IF rev = "go2web"
               THEN /\ get_from_cache(cache, k, t, "ok") = Str(v)
                    /\ get_from_cache(cache, k, t + CACHE_EXPIRATION - 1, "ok") = Str(v)
                    /\ get_from_cache(cache, k, t + CACHE_EXPIRATION, "ok") = None
               ELSE /\ l5cache[k] = L5File(v, t)
                    /\ get_cached_response(l5cache, k, "ok") = Str(v)

\* go2web: the record of every key is what the last store of the key wrote,
\* payload and creation time.
C18_Go2webStoreOverwrites ==
    \A k \in Urls :
        rev = "go2web" /\ written[k][1] = "store" =>
            /\ get_from_cache(cache, k, written[k][3], "ok") = Str(written[k][2])
            /\ get_from_cache(cache, k, written[k][3] + CACHE_EXPIRATION - 1, "ok")
                  = Str(written[k][2])
            /\ get_from_cache(cache, k, written[k][3] + CACHE_EXPIRATION, "ok") = None

\* lab5: the file of every key holds what the last store of the key wrote.
C18_Lab5FileOverwritten ==
    \A k \in Urls :
        rev = "lab5" /\ written[k][1] = "store" =>
            l5cache[k] = L5File(written[k][2], written[k][3])

\* ------------------------------------------------------- the sockets

\* C19: at every moment of a fetch at most one socket is open, and none is
\* open when the connection of the next hop is about to be opened: the
\* socket of a hop is closed before the next hop connects.
C19_AtMostOneSocket ==
    /\ Cardinality(opened) <= 1
    /\ pc = "connect" => opened = {}

\* The request of a second hop is on its way, on the one socket that is open.
C19_SecondHopOpen ==
    depth >= 2 /\ pc \in {"send", "recv"} /\ opened = {depth}

====
